---------------------------- MODULE Spec2Model ----------------------------
(***************************************************************************)
(* beeline: the "edit" workflow of src/main.rs (edit_datapoints) and the   *)
(* tab-separated codec of src/edit.rs (write_datapoints_tsv,               *)
(* read_datapoints_tsv).                                                   *)
(*                                                                         *)
(* Conventions.  A Rust Option is a sequence of length at most one: None   *)
(* is <<>> and Some(x) is <<x>>.  A text file is a sequence of lines and a *)
(* line is the sequence of fields that split('\t') yields (never empty: a  *)
(* blank line is the single field "").  An OffsetDateTime is a record      *)
(* [sec, nano] (unix seconds, nanosecond part); equality is equality of    *)
(* instants.  An f64 is modelled by the integer it holds.                  *)
(***************************************************************************)
EXTENDS Integers, Sequences, FiniteSets, TLC

VARIABLES
    pc,             \* position in edit_datapoints
    datapoints,     \* the fetched Vec<Datapoint>
    file,           \* contents of the temporary file
    wrOffset,       \* Option: offset resolved by write_datapoints_tsv
    rdOffset,       \* Option: offset resolved by read_datapoints_tsv
    editorStatus,   \* outcome of the editor child process
    edited,         \* edited_datapoints: what read_datapoints_tsv returned
    idx,            \* position of the for loop over edited_datapoints
    ids_to_delete,  \* the HashSet ids_to_delete
    calls,          \* remote mutation calls issued so far, in order
    stderr,         \* ids reported by "No datapoint with ID"
    result          \* how edit_datapoints returned

vars == <<pc, datapoints, file, wrOffset, rdOffset, editorStatus, edited,
          idx, ids_to_delete, calls, stderr, result>>

----------------------------------------------------------------------------
(* Bounds of the model. *)

\* most datapoints get_datapoints returns
MaxBefore == 2
\* most data lines the user leaves in the edited table
MaxLines == 2

\* ids the service assigns, in fetch order
IdPool == <<"a", "b", "c", "d">>
\* local UTC offsets the process may resolve, in seconds
Offsets == {0, 3600}
\* what fetched datapoints hold: an instant at a whole second (the service
\* sends unix seconds), a value, and a comment that is absent, empty or not
FetchedTimestamps == {[sec |-> 3600, nano |-> 0]}
FetchedValues == {1}
FetchedComments == {<<>>, <<"">>, <<"x">>}

----------------------------------------------------------------------------
(* Option helpers. *)

None == <<>>
Some(x) == <<x>>

\* Option<f64>::unwrap_or_default
UnwrapOrDefault(opt) == IF opt = None THEN 0 ELSE opt[1]

\* Option<&str>::unwrap_or
UnwrapOr(opt, d) == IF opt = None THEN d ELSE opt[1]

----------------------------------------------------------------------------
(* The codec of src/edit.rs. *)

\* the header line, as split('\t') sees it
Header == <<"TIMESTAMP", "VALUE", "COMMENT", "ID">>

\* TIMESTAMP_FORMAT applied to the wall-clock hours 00..03 of 1970-01-01
DateText == <<"1970-01-01 00:00:00", "1970-01-01 01:00:00",
              "1970-01-01 02:00:00", "1970-01-01 03:00:00">>

\* dp.timestamp.to_offset(offset).format(TIMESTAMP_FORMAT): the wall clock at
\* the offset, the sub-second part dropped
FormatTimestamp(ts, offset) == DateText[((ts.sec + offset) \div 3600) + 1]

\* PrimitiveDateTime::parse(date_str, TIMESTAMP_FORMAT): Some(wall-clock
\* seconds), or None for text the format does not match
ParseDate(date_str) ==
    IF \E i \in 1..Len(DateText) : DateText[i] = date_str
    THEN Some(3600 * ((CHOOSE i \in 1..Len(DateText) : DateText[i] = date_str) - 1))
    ELSE None

\* date.assume_offset(offset).to_offset(UtcOffset::UTC)
AssumeOffset(local, offset) == [sec |-> local - offset, nano |-> 0]

\* Display of an f64 holding an integer
FormatValue(v) == ToString(v)

\* str::parse::<f64>: Some(value), or None for text that is no number
ParseValue(value_str) ==
    CASE value_str \in {"1", "1.0"} -> Some(1)
      [] value_str \in {"2", "2.0"} -> Some(2)
      [] value_str \in {"3", "3.0"} -> Some(3)
      [] OTHER -> None

\* one line of write_datapoints_tsv
WriteLine(dp, offset) ==
    << FormatTimestamp(dp.timestamp, offset),
       FormatValue(dp.value),
       UnwrapOr(dp.comment, ""),
       dp.id >>

\* write_datapoints_tsv, the offset resolved
write_datapoints_tsv(dps, offset) ==
    <<Header>> \o [i \in 1..Len(dps) |-> WriteLine(dps[i], offset)]

\* whether the body of read_datapoints_tsv's loop returns an error on a line:
\* "Missing value", or a date or value that does not parse.  "Missing date"
\* cannot happen: split always yields a first field
LineFails(line) ==
    \/ Len(line) < 2
    \/ ParseDate(line[1]) = None
    \/ ParseValue(line[2]) = None

\* the EditableDatapoint the loop pushes for a line it accepts
ReadLine(line, offset) ==
    [ id        |-> IF Len(line) >= 4 /\ line[4] # "" THEN Some(line[4]) ELSE None,
      timestamp |-> Some(AssumeOffset(ParseDate(line[1])[1], offset)),
      value     |-> Some(ParseValue(line[2])[1]),
      comment   |-> Some(IF Len(line) >= 3 THEN line[3] ELSE "") ]

\* lines.next(): the first line is skipped, whatever it holds
SkipHeader(lines) == IF lines = <<>> THEN <<>> ELSE Tail(lines)

\* ReadLoop with a bug: a failing line is skipped, not returned as the error
RECURSIVE ReadLoopSkipsBadLines(_, _, _)
ReadLoopSkipsBadLines(lines, offset, rows) ==
    IF lines = <<>> THEN [ok |-> TRUE, rows |-> rows]
    ELSE IF LineFails(Head(lines)) THEN ReadLoopSkipsBadLines(Tail(lines), offset, rows)
    ELSE ReadLoopSkipsBadLines(Tail(lines), offset,
                               Append(rows, ReadLine(Head(lines), offset)))

\* the for loop of read_datapoints_tsv over the lines left, datapoints being
\* the rows pushed so far: `?` returns the error at the first failing line
RECURSIVE ReadLoop(_, _, _)
ReadLoop(lines, offset, rows) ==
    IF lines = <<>> THEN [ok |-> TRUE, rows |-> rows]
    ELSE IF LineFails(Head(lines)) THEN [ok |-> FALSE, rows |-> <<>>]
    ELSE ReadLoop(Tail(lines), offset, Append(rows, ReadLine(Head(lines), offset)))

\* read_datapoints_tsv, the offset resolved
read_datapoints_tsv(lines, offset) == ReadLoop(SkipHeader(lines), offset, <<>>)

----------------------------------------------------------------------------
(* Inputs: what the service returns and what the user leaves in the file. *)

\* sequences of length n over S
RECURSIVE SeqsOfLen(_, _)
SeqsOfLen(S, n) ==
    IF n = 0 THEN {<<>>}
    ELSE {Append(s, x) : s \in SeqsOfLen(S, n - 1), x \in S}

SeqsUpTo(S, n) == UNION {SeqsOfLen(S, k) : k \in 0..n}

\* a fetched Datapoint with the k-th id of the pool
DatapointsWithId(k) ==
    { [id |-> IdPool[k], timestamp |-> t, value |-> v, comment |-> c] :
        t \in FetchedTimestamps, v \in FetchedValues, c \in FetchedComments }

\* the Vec<Datapoint> get_datapoints may return: at most MaxBefore datapoints
\* with pairwise different ids
RECURSIVE FetchedOfLen(_)
FetchedOfLen(n) ==
    IF n = 0 THEN {<<>>}
    ELSE {Append(s, dp) : s \in FetchedOfLen(n - 1), dp \in DatapointsWithId(n)}

FetchedSets == UNION {FetchedOfLen(n) : n \in 0..MaxBefore}

\* lines the user types that decode.  For the first id: value and comment
\* each as fetched or changed; then the second id, an id the service never
\* sent, an empty id field, no id field, and no comment field either
GoodLines ==
    {<<"1970-01-01 02:00:00", v, c, "a">> : v \in {"1.0", "2"}, c \in {"", "x"}}
    \cup { <<"1970-01-01 02:00:00", "1", "x", "b">>,
           <<"1970-01-01 01:00:00", "2", "", "b">>,
           <<"1970-01-01 02:00:00", "3", "x", "z">>,
           <<"1970-01-01 02:00:00", "3", "", "">>,
           <<"1970-01-01 02:00:00", "2", "x">>,
           <<"1970-01-01 01:00:00", "1">> }

\* lines that do not decode: blank, a date that is no date, a value that is
\* no number
BadLines ==
    { <<"">>,
      <<"yesterday", "2", "", "a">>,
      <<"1970-01-01 02:00:00", "two", "", "a">> }

UserLines == GoodLines \cup BadLines

\* what the editor may leave in the file: the file as written, an empty file,
\* or the header followed by at most MaxLines lines
EditedTexts(written) ==
    {written, <<>>} \cup {<<Header>> \o ls : ls \in SeqsUpTo(UserLines, MaxLines)}

----------------------------------------------------------------------------
(* edit_datapoints of src/main.rs. *)

\* orig_map: id -> &Datapoint (collect keeps the last datapoint of an id)
OrigIds(dps) == {dps[i].id : i \in 1..Len(dps)}

orig_map(dps) ==
    [id \in OrigIds(dps) |->
        dps[CHOOSE i \in 1..Len(dps) :
              /\ dps[i].id = id
              /\ \A j \in (i + 1)..Len(dps) : dps[j].id # id]]

\* needs_update of an edited row against the datapoint it names
needs_update(dp, orig) ==
    \/ dp.value # Some(orig.value)
    \/ dp.timestamp # Some(orig.timestamp)
    \/ dp.comment # orig.comment

\* the UpdateDatapoint sent for row i
UpdateCall(dp, i) ==
    [kind |-> "update", id |-> dp.id[1], timestamp |-> dp.timestamp,
     value |-> dp.value, comment |-> dp.comment, row |-> i]

\* the CreateDatapoint sent for row i
CreateCall(dp, i) ==
    [kind |-> "create", timestamp |-> dp.timestamp,
     value |-> UnwrapOrDefault(dp.value), comment |-> dp.comment, row |-> i]

\* the delete_datapoint call for an id
DeleteCall(id) == [kind |-> "delete", id |-> id]

Init ==
    /\ pc = "fetch"
    /\ datapoints = <<>>
    /\ file = <<>>
    /\ wrOffset = None
    /\ rdOffset = None
    /\ editorStatus = "none"
    /\ edited = <<>>
    /\ idx = 0
    /\ ids_to_delete = {}
    /\ calls = <<>>
    /\ stderr = <<>>
    /\ result = "running"

\* `?` on an Err: edit_datapoints returns it
Return(r) == pc' = "done" /\ result' = r

\* client.get_datapoints(goal, Some("timestamp"), Some(20)).await?
GetDatapoints ==
    /\ pc = "fetch"
    /\ \E dps \in FetchedSets : datapoints' = dps
    /\ pc' = "write"
    /\ UNCHANGED <<file, wrOffset, rdOffset, editorStatus, edited, idx,
                   ids_to_delete, calls, stderr, result>>

GetDatapointsErr ==
    /\ pc = "fetch"
    /\ Return("err_fetch")
    /\ UNCHANGED <<datapoints, file, wrOffset, rdOffset, editorStatus, edited,
                   idx, ids_to_delete, calls, stderr>>

\* edit::write_datapoints_tsv(&mut temp, &datapoints)?
WriteTsv ==
    /\ pc = "write"
    /\ \E offset \in Offsets :
         /\ wrOffset' = Some(offset)
         /\ file' = write_datapoints_tsv(datapoints, offset)
    /\ pc' = "editor"
    /\ UNCHANGED <<datapoints, rdOffset, editorStatus, edited, idx,
                   ids_to_delete, calls, stderr, result>>

\* UtcOffset::current_local_offset()? fails after the header is written
WriteTsvOffsetErr ==
    /\ pc = "write"
    /\ file' = <<Header>>
    /\ Return("err_offset")
    /\ UNCHANGED <<datapoints, wrOffset, rdOffset, editorStatus, edited, idx,
                   ids_to_delete, calls, stderr>>

\* ProcessCommand::new(editor).arg(temp.path()).status(): the child ran and
\* exited, with whatever status; the status is not looked at
RunEditor ==
    /\ pc = "editor"
    /\ \E text \in EditedTexts(file) : file' = text
    /\ \E st \in {"zero", "nonzero"} : editorStatus' = st
    /\ pc' = "read"
    /\ UNCHANGED <<datapoints, wrOffset, rdOffset, edited, idx, ids_to_delete,
                   calls, stderr, result>>

\* .status().context("Failed to open editor")?: the child could not be spawned
RunEditorSpawnErr ==
    /\ pc = "editor"
    /\ editorStatus' = "spawn_failed"
    /\ Return("err_editor")
    /\ UNCHANGED <<datapoints, file, wrOffset, rdOffset, edited, idx,
                   ids_to_delete, calls, stderr>>

\* edit::read_datapoints_tsv(reader)?, then orig_map and ids_to_delete
ReadTsv ==
    /\ pc = "read"
    /\ \E offset \in Offsets :
         LET r == read_datapoints_tsv(file, offset) IN
         /\ rdOffset' = Some(offset)
         /\ IF r.ok
            THEN /\ edited' = r.rows
                 /\ ids_to_delete' = OrigIds(datapoints)
                 /\ idx' = 1
                 /\ pc' = "apply"
                 /\ UNCHANGED result
            ELSE /\ Return("err_parse")
                 /\ UNCHANGED <<edited, ids_to_delete, idx>>
    /\ UNCHANGED <<datapoints, file, wrOffset, editorStatus, calls, stderr>>

ReadTsvOffsetErr ==
    /\ pc = "read"
    /\ Return("err_offset")
    /\ UNCHANGED <<datapoints, file, wrOffset, rdOffset, editorStatus, edited,
                   idx, ids_to_delete, calls, stderr>>

\* the for loop over edited_datapoints is at a row
InLoop == pc = "apply" /\ idx <= Len(edited)

\* LoopOver with a bug: the deletes do not wait for the end of the loop
LoopOverEarly == pc = "apply"

\* the for loop over edited_datapoints has ended
LoopOver == pc = "apply" /\ idx > Len(edited)

\* a remote call is issued: Ok lets `after` happen, Err returns through `?`
Await(call, after) ==
    /\ calls' = Append(calls, call)
    /\ \/ after /\ UNCHANGED <<pc, result>>
       \/ Return("err_api") /\ UNCHANGED idx

\* UpdateRow with a bug: the id stays in ids_to_delete
UpdateRowKeepsId ==
    /\ InLoop
    /\ edited[idx].id # None
    /\ edited[idx].id[1] \in DOMAIN orig_map(datapoints)
    /\ needs_update(edited[idx], orig_map(datapoints)[edited[idx].id[1]])
    /\ Await(UpdateCall(edited[idx], idx), idx' = idx + 1)
    /\ UNCHANGED <<datapoints, file, wrOffset, rdOffset, editorStatus, edited,
                   ids_to_delete, stderr>>

\* row with Some(id) found in orig_map whose fields differ: update_datapoint
UpdateRow ==
    /\ InLoop
    /\ edited[idx].id # None
    /\ edited[idx].id[1] \in DOMAIN orig_map(datapoints)
    /\ needs_update(edited[idx], orig_map(datapoints)[edited[idx].id[1]])
    /\ ids_to_delete' = ids_to_delete \ {edited[idx].id[1]}
    /\ Await(UpdateCall(edited[idx], idx), idx' = idx + 1)
    /\ UNCHANGED <<datapoints, file, wrOffset, rdOffset, editorStatus, edited, stderr>>

\* row with Some(id) found in orig_map and no field changed
KeepRow ==
    /\ InLoop
    /\ edited[idx].id # None
    /\ edited[idx].id[1] \in DOMAIN orig_map(datapoints)
    /\ ~needs_update(edited[idx], orig_map(datapoints)[edited[idx].id[1]])
    /\ ids_to_delete' = ids_to_delete \ {edited[idx].id[1]}
    /\ idx' = idx + 1
    /\ UNCHANGED <<pc, datapoints, file, wrOffset, rdOffset, editorStatus, edited,
                   calls, stderr, result>>

\* OrphanRow with a bug: a row with an unknown id is created like a new row
OrphanRowCreates ==
    /\ InLoop
    /\ edited[idx].id # None
    /\ edited[idx].id[1] \notin DOMAIN orig_map(datapoints)
    /\ Await(CreateCall(edited[idx], idx), idx' = idx + 1)
    /\ UNCHANGED <<datapoints, file, wrOffset, rdOffset, editorStatus, edited,
                   ids_to_delete, stderr>>

\* row with Some(id) that orig_map does not hold: eprintln!
OrphanRow ==
    /\ InLoop
    /\ edited[idx].id # None
    /\ edited[idx].id[1] \notin DOMAIN orig_map(datapoints)
    /\ stderr' = Append(stderr, edited[idx].id[1])
    /\ idx' = idx + 1
    /\ UNCHANGED <<pc, datapoints, file, wrOffset, rdOffset, editorStatus, edited,
                   ids_to_delete, calls, result>>

\* row with id None: create_datapoint
CreateRow ==
    /\ InLoop
    /\ edited[idx].id = None
    /\ Await(CreateCall(edited[idx], idx), idx' = idx + 1)
    /\ UNCHANGED <<datapoints, file, wrOffset, rdOffset, editorStatus, edited,
                   ids_to_delete, stderr>>

\* for id in ids_to_delete: delete_datapoint, in the set's iteration order
DeleteId ==
    /\ LoopOver
    /\ \E id \in ids_to_delete :
         /\ ids_to_delete' = ids_to_delete \ {id}
         /\ Await(DeleteCall(id), UNCHANGED idx)
    /\ UNCHANGED <<datapoints, file, wrOffset, rdOffset, editorStatus, edited, stderr>>

\* Ok(())
Finish ==
    /\ LoopOver
    /\ ids_to_delete = {}
    /\ Return("ok")
    /\ UNCHANGED <<datapoints, file, wrOffset, rdOffset, editorStatus, edited,
                   idx, ids_to_delete, calls, stderr>>

Next ==
    \/ GetDatapoints
    \/ GetDatapointsErr
    \/ WriteTsv
    \/ WriteTsvOffsetErr
    \/ RunEditor
    \/ RunEditorSpawnErr
    \/ ReadTsv
    \/ ReadTsvOffsetErr
    \/ UpdateRow
    \/ KeepRow
    \/ OrphanRow
    \/ CreateRow
    \/ DeleteId
    \/ Finish

Spec == Init /\ [][Next]_vars

----------------------------------------------------------------------------
(* Vocabulary of the claims. *)

\* read_datapoints_tsv returned Ok: reconciliation has started
Decoded == pc = "apply" \/ (pc = "done" /\ result \in {"ok", "err_api"})

\* edit_datapoints has returned after reconciliation started
Ended == pc = "done" /\ result \in {"ok", "err_api"}

\* the data lines of the file, the first line apart
DataLines == SkipHeader(file)

\* the calls of a kind
CallsOf(kind) == {k \in 1..Len(calls) : calls[k].kind = kind}

\* after-row i carries an id of the before-set / an id of nobody / no id
Matched(i) == edited[i].id # None /\ edited[i].id[1] \in OrigIds(datapoints)
Orphan(i) == edited[i].id # None /\ edited[i].id[1] \notin OrigIds(datapoints)
IdLess(i) == edited[i].id = None

\* the before-row an after-row with a matching id names
BeforeRow(i) == CHOOSE dp \in {datapoints[j] : j \in 1..Len(datapoints)} : dp.id = edited[i].id[1]

\* at least one of timestamp, value, comment of after-row i differs from its
\* before-row
Differs(i) ==
    \/ edited[i].timestamp # <<BeforeRow(i).timestamp>>
    \/ edited[i].value # <<BeforeRow(i).value>>
    \/ edited[i].comment # BeforeRow(i).comment

\* ids the after-rows carry
AfterIds == {edited[i].id[1] : i \in {j \in 1..Len(edited) : edited[j].id # None}}

\* after-rows not yet reached that call for an Update or a Create
PendingRows ==
    {i \in (idx + 1)..Len(edited) : IdLess(i) \/ (Matched(i) /\ Differs(i))}

\* before-row ids no after-row carries whose Delete has not been issued
PendingDeletes ==
    {id \in OrigIds(datapoints) \ AfterIds :
        \A k \in CallsOf("delete") : calls[k].id # id}

----------------------------------------------------------------------------
(* C1: identity round trip.  For fetched datapoints with unique ids, comments
   absent, empty or not, and instants at whole seconds: when the file the
   editor leaves is the text write_datapoints_tsv wrote, and it is decoded at
   the same local offset, the session issues no create, update or delete. *)
C1_IdentityRoundTrip ==
    ( /\ Decoded
      /\ wrOffset # None
      /\ rdOffset = wrOffset
      /\ file = write_datapoints_tsv(datapoints, wrOffset[1])
      /\ \A i \in 1..Len(datapoints) : datapoints[i].timestamp.nano = 0 )
    => calls = <<>>

(* C1, the part the code keeps: the same with every fetched comment present. *)
C1_RoundTripCommentsPresent ==
    ( /\ Decoded
      /\ wrOffset # None
      /\ rdOffset = wrOffset
      /\ file = write_datapoints_tsv(datapoints, wrOffset[1])
      /\ \A i \in 1..Len(datapoints) : datapoints[i].comment # None )
    => calls = <<>>

(* C2: best-effort apply.  When a remote call fails, every operation that
   reconciliation computes after it is still attempted: the session does not
   end with an after-row left that calls for an Update or a Create, or with a
   Delete left unissued. *)
C2_BestEffortApply ==
    (pc = "done" /\ result = "err_api") => (PendingRows = {} /\ PendingDeletes = {})

(* C3: a malformed table rejects the whole edit.  Once the file has been read,
   if any data line lacks a value field (a blank line too) or holds a
   timestamp or a value that does not parse, the read returned an error, no
   row list exists and no create, update or delete was issued. *)
C3_MalformedRejectsEdit ==
    ( /\ pc \in {"apply", "done"}
      /\ editorStatus \in {"zero", "nonzero"}
      /\ \E k \in 1..Len(DataLines) :
            \/ Len(DataLines[k]) < 2
            \/ ParseDate(DataLines[k][1]) = None
            \/ ParseValue(DataLines[k][2]) = None )
    => ( /\ pc = "done"
         /\ result \in {"err_parse", "err_offset"}
         /\ edited = <<>>
         /\ calls = <<>>
         /\ ids_to_delete = {} )

\* C3's case: a well-formed id-less line, which alone would be created, then a
\* malformed line; the read has returned its error
C3_Witness ==
    /\ pc = "done"
    /\ result = "err_parse"
    /\ Len(DataLines) = 2
    /\ Len(DataLines[1]) = 3
    /\ ParseDate(DataLines[1][1]) # None
    /\ ParseValue(DataLines[1][2]) # None
    /\ Len(DataLines[2]) >= 2
    /\ ParseValue(DataLines[2][2]) = None

(* C4: apply ordering.  No Delete is followed by an Update or a Create, and
   Updates and Creates are issued in the order of their rows in the table. *)
C4_ApplyOrdering ==
    \A j \in 1..Len(calls) : \A k \in (j + 1)..Len(calls) :
        /\ calls[j].kind = "delete" => calls[k].kind = "delete"
        /\ (calls[j].kind # "delete" /\ calls[k].kind # "delete")
              => calls[j].row < calls[k].row

\* C4's case: an Update and a Create of two rows were issued, then a Delete
C4_Witness ==
    /\ Len(calls) = 3
    /\ {calls[1].kind, calls[2].kind} = {"update", "create"}
    /\ calls[3].kind = "delete"

(* C5: update exactly on change.  When the session has ended, every after-row
   whose id matches a before-row has an Update carrying its id, timestamp,
   value and comment if and only if one of the three differs from the
   before-row, and a matched row that differs in nothing has no call. *)
C5_UpdateExactlyOnChange ==
    Ended =>
        \A i \in 1..Len(edited) :
            Matched(i) =>
                /\ Differs(i) <=>
                      \E k \in CallsOf("update") :
                          calls[k] = [kind |-> "update", id |-> edited[i].id[1],
                                      timestamp |-> edited[i].timestamp,
                                      value |-> edited[i].value,
                                      comment |-> edited[i].comment, row |-> i]
                /\ ~Differs(i) =>
                      \A k \in CallsOf("update") \cup CallsOf("create") : calls[k].row # i

(* C5, the part the code keeps: the same for sessions in which no remote call
   failed. *)
C5_UpdateExactlyOnChangeNoFailure ==
    (pc = "done" /\ result = "ok") =>
        \A i \in 1..Len(edited) :
            Matched(i) =>
                /\ Differs(i) <=>
                      \E k \in CallsOf("update") :
                          calls[k] = [kind |-> "update", id |-> edited[i].id[1],
                                      timestamp |-> edited[i].timestamp,
                                      value |-> edited[i].value,
                                      comment |-> edited[i].comment, row |-> i]
                /\ ~Differs(i) =>
                      \A k \in CallsOf("update") \cup CallsOf("create") : calls[k].row # i

(* C6: the delete set is exact.  When the session has ended, a before-row id
   has a Delete if and only if no after-row carries it, and then exactly one;
   so an empty after sequence deletes every before-row and creates nothing. *)
C6_DeleteSetExact ==
    Ended =>
        /\ \A id \in OrigIds(datapoints) :
              Cardinality({k \in CallsOf("delete") : calls[k].id = id})
                 = IF id \in AfterIds THEN 0 ELSE 1
        /\ \A k \in CallsOf("delete") : calls[k].id \in OrigIds(datapoints)
        /\ edited = <<>> => CallsOf("create") = {}

(* C6, the part the code keeps: the same for sessions in which no remote call
   failed. *)
C6_DeleteSetExactNoFailure ==
    (pc = "done" /\ result = "ok") =>
        /\ \A id \in OrigIds(datapoints) :
              Cardinality({k \in CallsOf("delete") : calls[k].id = id})
                 = IF id \in AfterIds THEN 0 ELSE 1
        /\ \A k \in CallsOf("delete") : calls[k].id \in OrigIds(datapoints)
        /\ edited = <<>> => CallsOf("create") = {}

\* no call names the id of an orphan row or was issued for an orphan row, and
\* every orphan row the loop has passed is reported, in order
OrphansNotApplied ==
    /\ \A k \in CallsOf("update") \cup CallsOf("delete") :
          calls[k].id \in OrigIds(datapoints)
    /\ \A k \in CallsOf("update") \cup CallsOf("create") : ~Orphan(calls[k].row)
    /\ Decoded =>
          LET passed == {i \in 1..Len(edited) : i < idx /\ Orphan(i)} IN
          /\ Len(stderr) = Cardinality(passed)
          /\ \A i \in passed :
                stderr[Cardinality({j \in passed : j <= i})] = edited[i].id[1]

\* the step taken at an orphan row: the report, and nothing else but the move
\* to the next row
OrphanStep ==
    (InLoop /\ Orphan(idx)) =>
        /\ stderr' = Append(stderr, edited[idx].id[1])
        /\ calls' = calls
        /\ ids_to_delete' = ids_to_delete
        /\ idx' = idx + 1
        /\ pc' = "apply"
        /\ result' = "running"

\* OrphansNotApplied, and when the session has ended every orphan after-row,
\* reached or not, is reported, in order
OrphansReportedNotApplied ==
    /\ OrphansNotApplied
    /\ Ended =>
          LET orphans == {i \in 1..Len(edited) : Orphan(i)} IN
          /\ Len(stderr) = Cardinality(orphans)
          /\ \A i \in orphans :
                stderr[Cardinality({j \in orphans : j <= i})] = edited[i].id[1]

(* C7: orphan edits are never applied.  An after-row whose id matches no
   before-row is reported and yields no Create, Update or Delete naming its id
   or carrying its fields; it takes no id out of the to-delete set, and the
   loop goes on to the next row. *)
C7_OrphansReportedNeverApplied ==
    []OrphansReportedNotApplied /\ [][OrphanStep]_vars

(* C7, the part the code keeps: no call is ever issued for an orphan row or
   names its id, the step at an orphan row touches nothing but stderr and the
   loop position, and every orphan row the loop reaches is reported. *)
C7_OrphansNeverApplied == []OrphansNotApplied /\ [][OrphanStep]_vars

\* C7's case in a session with no failed call: an orphan row was reported, a later row was applied and a
\* before-row was deleted after it
C7_Witness ==
    /\ Len(stderr) = 1
    /\ Len(edited) = 2
    /\ Orphan(1)
    /\ \E k \in CallsOf("update") \cup CallsOf("create") : calls[k].row = 2
    /\ CallsOf("delete") # {}

(* C8: editor failure aborts the session.  If the editor could not be spawned
   or exited with a non-zero status, the session ends with a fatal error: the
   file is not decoded, nothing is reconciled and no call is issued. *)
C8_EditorFailureAborts ==
    editorStatus \in {"nonzero", "spawn_failed"} =>
        /\ pc \in {"done", "read"}
        /\ pc = "done" => result = "err_editor"
        /\ rdOffset = None
        /\ edited = <<>>
        /\ ids_to_delete = {}
        /\ calls = <<>>

(* C8, the part the code keeps: the same for an editor that could not be
   spawned. *)
C8_SpawnFailureAborts ==
    editorStatus = "spawn_failed" =>
        /\ pc = "done"
        /\ result = "err_editor"
        /\ rdOffset = None
        /\ edited = <<>>
        /\ calls = <<>>

(* C9: one Create per id-less row.  Every data line whose id field is missing
   or empty is decoded with an absent id, and when the session has ended has
   exactly one Create, carrying its timestamp, value and comment, and neither
   an Update nor an orphan report; there are as many Creates as such rows. *)
C9_CreatePerIdLessRow ==
    /\ Decoded =>
          \A i \in 1..Len(edited) :
              IdLess(i) <=> (Len(DataLines[i]) < 4 \/ DataLines[i][4] = "")
    /\ Ended =>
          /\ \A i \in 1..Len(edited) :
                IdLess(i) =>
                    /\ {k \in 1..Len(calls) : calls[k].kind # "delete" /\ calls[k].row = i}
                          = {k \in CallsOf("create") :
                                calls[k] = [kind |-> "create",
                                            timestamp |-> edited[i].timestamp,
                                            value |-> edited[i].value[1],
                                            comment |-> edited[i].comment, row |-> i]}
                    /\ Cardinality({k \in CallsOf("create") : calls[k].row = i}) = 1
          /\ Cardinality(CallsOf("create"))
                = Cardinality({i \in 1..Len(edited) : IdLess(i)})
          /\ Len(stderr) = Cardinality({i \in 1..Len(edited) : i < idx /\ Orphan(i)})

(* C9, the part the code keeps: the same for sessions in which no remote call
   failed. *)
C9_CreatePerIdLessRowNoFailure ==
    /\ Decoded =>
          \A i \in 1..Len(edited) :
              IdLess(i) <=> (Len(DataLines[i]) < 4 \/ DataLines[i][4] = "")
    /\ (pc = "done" /\ result = "ok") =>
          /\ \A i \in 1..Len(edited) :
                IdLess(i) =>
                    /\ {k \in 1..Len(calls) : calls[k].kind # "delete" /\ calls[k].row = i}
                          = {k \in CallsOf("create") :
                                calls[k] = [kind |-> "create",
                                            timestamp |-> edited[i].timestamp,
                                            value |-> edited[i].value[1],
                                            comment |-> edited[i].comment, row |-> i]}
                    /\ Cardinality({k \in CallsOf("create") : calls[k].row = i}) = 1
          /\ Cardinality(CallsOf("create"))
                = Cardinality({i \in 1..Len(edited) : IdLess(i)})

(* C10: mutation targets stay inside the snapshot.  Every Update and Delete
   names an id of the fetched datapoints; no id is both updated and deleted;
   no id is deleted twice; an id that several after-rows carry is never
   deleted (it may be updated more than once). *)
C10_TargetsInsideSnapshot ==
    /\ \A k \in CallsOf("update") \cup CallsOf("delete") :
          calls[k].id \in OrigIds(datapoints)
    /\ \A k \in CallsOf("update") : \A d \in CallsOf("delete") :
          calls[k].id # calls[d].id
    /\ \A d \in CallsOf("delete") : \A e \in CallsOf("delete") :
          calls[d].id = calls[e].id => d = e
    /\ \A d \in CallsOf("delete") :
          Cardinality({i \in 1..Len(edited) : edited[i].id = <<calls[d].id>>}) < 2

\* C10's case: two after-rows carry the same id, it was updated twice, and
\* another id was deleted
C10_Witness ==
    /\ Len(calls) = 3
    /\ calls[1].kind = "update"
    /\ calls[2].kind = "update"
    /\ calls[1].id = calls[2].id
    /\ calls[3].kind = "delete"
    /\ pc = "done"
    /\ result = "ok"

=============================================================================
